---- MODULE Spec2Model ----
(***************************************************************************)
(* The srcodex indexing pipeline (src/indexer): file discovery, the        *)
(* symbol store written by Stage 1, the cscope database, raw reference     *)
(* ingestion and edge resolution, driven by indexer.main.                  *)
(*                                                                         *)
(* A path is a sequence of components (strings); Path.as_posix() joins     *)
(* them with "/".  A store table is a set or a sequence of records.        *)
(***************************************************************************)
EXTENDS Integers, Sequences, FiniteSets, TLC

VARIABLES
    source_root,     \* Path(source_dir).resolve(): components below "/"
    extensions,      \* ext_list of the run
    tree,            \* the source tree on disk: [files, rev]
    files_to_index,  \* discover_files_absolute(), as relative paths
    idx,             \* position of the Stage 1 loop in files_to_index
    total_symbols,   \* the loop's running count
    files,           \* table files: set of paths
    symbols,         \* table symbols: set of rows
    symbols_fts,     \* table symbols_fts: set of rows
    raw_references,  \* table raw_references: rows in id order
    symbol_edges,    \* table symbol_edges: set of rows (UNIQUE tuple)
    file_edges,      \* table file_edges: rows in id order
    metadata,        \* table metadata: NoMeta or the written values
    txn,             \* NoTxn, or the committed store an open transaction rolls back to
    cscope_out,      \* NoCscope, or what cscope.out was built from
    on_delete,       \* the schema's action for a deleted symbols row that edges reference
    flags,           \* the CLI flags of the current run
    pc,              \* position of main()
    runs,            \* history: the runs started so far
    faults,          \* history: the failures the environment has injected so far
    store0,          \* history: the store when the run started
    trace,           \* history: the store events of the run, in order
    arg,             \* the arguments of a function called on its own
    ret              \* what that call returned

vars == <<source_root, extensions, tree, files_to_index, idx, total_symbols,
          files, symbols, symbols_fts, raw_references, symbol_edges,
          file_edges, metadata, txn, cscope_out, on_delete, flags, pc, runs, faults,
          store0, trace, arg, ret>>

-----------------------------------------------------------------------------
(* Bounds of the model *)

\* Largest symbols.id the model lets the store hand out.
MaxSymbolId == 10

\* Runs of the command line in one behaviour.
MaxRuns == 2

\* Failures (an I/O or store error, a failing scanner) in one behaviour.
MaxFaults == 1

\* The longest tag stream the adapter is given on its own.
MaxTags == 3

\* The most lines of output one scanner query is given.
MaxLines == 2

\* The most rows of raw_references a resolver is given on its own.
MaxRaw == 2

\* Calls made on one ReferenceResolver object.
MaxCalls == 2

-----------------------------------------------------------------------------
(* Sequences and sets *)

Last(s) == s[Len(s)]

Range(s) == {s[i] : i \in DOMAIN s}

RECURSIVE SetToSeq(_)
SetToSeq(S) ==
    IF S = {} THEN <<>>
    ELSE LET x == CHOOSE y \in S : TRUE IN <<x>> \o SetToSeq(S \ {x})

RECURSIVE FilterSeq(_, _)
\* The subsequence of s whose elements are in S.
FilterSeq(s, S) ==
    IF s = <<>> THEN <<>>
    ELSE (IF Head(s) \in S THEN <<Head(s)>> ELSE <<>>) \o FilterSeq(Tail(s), S)

\* str.endswith / the glob "*" + suffix on a name
EndsWith(s, suffix) ==
    /\ Len(s) >= Len(suffix)
    /\ SubSeq(s, Len(s) - Len(suffix) + 1, Len(s)) = suffix

-----------------------------------------------------------------------------
(* The source trees of the model *)

F_AC  == <<"a.c">>
F_BH  == <<"inc", "b.h">>
F_GC  == <<"build", "g.c">>
F_TXT == <<"notes.txt">>
F_OC  == <<"out", "o.c">>
F_SRC == <<"src", "out.c">>
F_VH  == <<"venv", "lib", "v.h">>

\* Every component name of the model, in str order (sorted() compares these).
NameOrder == <<"/", "a", "a.c", "b.h", "build", "g.c", "home", "inc", "lib",
               "notes.txt", "o.c", "out", "out.c", "proj", "src", "u", "v.h",
               "venv", "x.c">>

NameRank(n) == CHOOSE i \in DOMAIN NameOrder : NameOrder[i] = n

RECURSIVE PathLess(_, _)
\* Path.__lt__: the component lists compared lexicographically
PathLess(p, q) ==
    IF p = <<>> THEN q # <<>>
    ELSE IF q = <<>> THEN FALSE
    ELSE IF Head(p) = Head(q) THEN PathLess(Tail(p), Tail(q))
    ELSE NameRank(Head(p)) < NameRank(Head(q))

SortPaths(S) == SortSeq(SetToSeq(S), PathLess)

\* Two states of the working tree: the fixture, and the tree after helper
\* was removed from a.c and inc/b.h was deleted.
Tree1 == [files |-> {F_AC, F_BH, F_GC, F_TXT}, rev |-> 1]
Tree2 == [files |-> {F_AC, F_GC, F_TXT}, rev |-> 2]
Trees == {Tree1, Tree2}

-----------------------------------------------------------------------------
(* File discovery (explorer.py) *)

DEFAULT_IGNORE_DIRS ==
    {".git", "__pycache__", "out", "build", "dist", ".pytest_cache",
     "node_modules", ".venv", "venv"}

\* FileDiscovery._should_ignore: any part of the path it is given
ShouldIgnore(file_path) ==
    \E i \in DOMAIN file_path : file_path[i] \in DEFAULT_IGNORE_DIRS

\* source_root.rglob("*" + ext): the absolute paths under the root whose
\* name matches
Rglob(root, t, ext) ==
    {root \o p : p \in {q \in t.files : EndsWith(Last(q), ext)}}

RECURSIVE DiscoverLoop(_, _, _)
\* The loop over self.extensions: the kept paths of each extension appended
DiscoverLoop(root, t, exts) ==
    IF exts = <<>> THEN <<>>
    ELSE SetToSeq({f \in Rglob(root, t, Head(exts)) : ~ShouldIgnore(f)})
         \o DiscoverLoop(root, t, Tail(exts))

\* FileDiscovery.discover_files_absolute
DiscoverFilesAbsolute(root, t, exts) ==
    SortSeq(DiscoverLoop(root, t, exts), PathLess)

\* Path.relative_to(source_root)
RelativeTo(p, root) == SubSeq(p, Len(root) + 1, Len(p))

-----------------------------------------------------------------------------
(* What the two external tools see in a tree *)

\* A key the extractor's JSON record does not have; a value that is None.
Absent == "<absent>"

\* A tag record with the required fields only.
Tag(name, kind, line) ==
    [name |-> name, kind |-> kind, line |-> line, typeref |-> Absent,
     scope |-> Absent, scopeKind |-> Absent]

\* The tag records the extractor emits for a file.
Tags(rev, p) ==
    IF p = F_AC /\ rev = 1 THEN
        << Tag("helper", "function", 2), Tag("main", "function", 3) >>
    ELSE IF p = F_AC THEN
        << Tag("main", "function", 2) >>
    ELSE IF p = F_BH THEN
        << Tag("B_H", "macro", 2), Tag("b_api", "prototype", 3),
           Tag("main", "prototype", 4) >>
    ELSE IF p = F_GC THEN
        << Tag("g", "function", 1) >>
    ELSE <<>>

\* The call sites of a file: [caller, callee, line, text].
Calls(rev, p) ==
    IF p = F_AC /\ rev = 1 THEN
        << [caller |-> "main", callee |-> "helper", line |-> 4,
            text |-> "return helper(helper(2));"],
           [caller |-> "main", callee |-> "helper", line |-> 4,
            text |-> "return helper(helper(2));"] >>
    ELSE <<>>

\* The #include lines of a file: [header, line, text].
Includes(rev, p) ==
    IF p = F_AC THEN
        << [header |-> "b.h", line |-> 1, text |-> "#include \"b.h\""] >>
    ELSE <<>>

\* str.startswith(prefix)
StartsWith(str, prefix) ==
    Len(str) >= Len(prefix) /\ SubSeq(str, 1, Len(prefix)) = prefix


\* The aggregate kind a typeref starts with, or Absent.
AggregateOf(typeref) ==
    IF typeref = Absent THEN Absent
    ELSE IF StartsWith(typeref, "struct:") THEN "struct"
    ELSE IF StartsWith(typeref, "union:") THEN "union"
    ELSE IF StartsWith(typeref, "enum:") THEN "enum"
    ELSE Absent

\* typeref.split(':', 1)[1] of a typeref that starts with an aggregate kind
AfterColon(typeref) ==
    SubSeq(typeref, Len(AggregateOf(typeref)) + 2, Len(typeref))

\* CTagsParser.parse_file, pass 1: anon_to_typedef, a later typedef
\* overwriting an earlier one of the same anonymous name
AnonToTypedef(tags) ==
    LET m[i \in 0..Len(tags)] ==
            IF i = 0 THEN [x \in {} |-> ""]
            ELSE LET tag == tags[i]
                     prev == m[i - 1]
                 IN IF /\ tag.kind = "typedef"
                       /\ AggregateOf(tag.typeref) # Absent
                       /\ StartsWith(AfterColon(tag.typeref), "__anon")
                       /\ tag.name # ""
                    THEN [x \in DOMAIN prev \cup {AfterColon(tag.typeref)} |->
                             IF x = AfterColon(tag.typeref) THEN tag.name ELSE prev[x]]
                    ELSE prev
    IN m[Len(tags)]

\* CTagsParser._parse_tag: type_map.get(kind, kind)
TypeMap(kind) ==
    CASE kind = "function"  -> "function"
      [] kind = "prototype" -> "function"
      [] kind = "macro"     -> "macro"
      [] OTHER              -> kind

\* CTagsParser._parse_tag: symbol_type
SymbolType(tag) ==
    IF tag.kind = "typedef" /\ tag.typeref \notin {Absent, ""}
    THEN IF AggregateOf(tag.typeref) # Absent THEN AggregateOf(tag.typeref)
         ELSE "typedef"
    ELSE TypeMap(tag.kind)

\* CTagsParser._parse_tag: parent_scope_name after the typedef rewrite
ParentScopeName(tag, anon_to_typedef) ==
    IF StartsWith(tag.scope, "__anon") /\ tag.scope \in DOMAIN anon_to_typedef
    THEN anon_to_typedef[tag.scope]
    ELSE tag.scope

\* _parse_tag with the scope kept whatever the rewritten name is
ParseTagKeepScope(tag, anon_to_typedef) ==
    IF tag.name = "" \/ tag.kind = "" THEN <<>>
    ELSE IF StartsWith(tag.name, "__anon") THEN <<>>
    ELSE LET has_scope == tag.scopeKind # Absent /\ tag.scope # Absent
         IN << [name |-> tag.name, type |-> SymbolType(tag), line |-> tag.line,
                typeref |-> tag.typeref,
                scope_kind |-> IF has_scope THEN tag.scopeKind ELSE Absent,
                scope_name |-> IF has_scope
                               THEN ParentScopeName(tag, anon_to_typedef)
                               ELSE Absent] >>

\* CTagsParser._parse_tag: <<>> for None, else the one symbol dictionary
\* (signature, scope and is_file_scope left out)
ParseTag(tag, anon_to_typedef) ==
    IF tag.name = "" \/ tag.kind = "" THEN <<>>
    ELSE IF StartsWith(tag.name, "__anon") THEN <<>>
    ELSE LET has_scope == tag.scopeKind # Absent /\ tag.scope # Absent
             keep == has_scope
                       /\ ~StartsWith(ParentScopeName(tag, anon_to_typedef), "__anon")
         IN << [name |-> tag.name, type |-> SymbolType(tag), line |-> tag.line,
                typeref |-> tag.typeref,
                scope_kind |-> IF keep THEN tag.scopeKind ELSE Absent,
                scope_name |-> IF keep
                               THEN ParentScopeName(tag, anon_to_typedef)
                               ELSE Absent] >>

\* parse_file in one pass: a scope is resolved with the typedefs seen so far
ParseTagsOnePass(tags) ==
    LET out[i \in 0..Len(tags)] ==
            IF i = 0 THEN <<>>
            ELSE out[i - 1] \o ParseTag(tags[i], AnonToTypedef(SubSeq(tags, 1, i)))
    IN out[Len(tags)]

\* CTagsParser.parse_file, pass 2: the symbols of a tag stream
ParseTags(tags) ==
    LET out[i \in 0..Len(tags)] ==
            IF i = 0 THEN <<>>
            ELSE out[i - 1] \o ParseTag(tags[i], AnonToTypedef(tags))
    IN out[Len(tags)]

\* One Symbol record of parse_root: the dictionary of _parse_tag and the
\* extractor's own kind string.
SymbolRecord(tag, anon_to_typedef) ==
    LET d == ParseTag(tag, anon_to_typedef)
    IN IF d = <<>> THEN <<>>
       ELSE << [name |-> d[1].name, type |-> d[1].type, kind_raw |-> tag.kind,
                line |-> d[1].line, typeref |-> d[1].typeref,
                scope_kind |-> d[1].scope_kind, scope_name |-> d[1].scope_name] >>

\* CTagsParser.parse_root: canonical path -> the file's Symbol records
ParseRoot(t, p) ==
    IF p \in t.files
    THEN LET tags == Tags(t.rev, p)
             out[i \in 0..Len(tags)] ==
                 IF i = 0 THEN <<>>
                 ELSE out[i - 1] \o SymbolRecord(tags[i], AnonToTypedef(tags))
         IN out[Len(tags)]
    ELSE <<>>

-----------------------------------------------------------------------------
(* The store *)

\* The values of a table never written, of no open transaction, of a missing
\* cscope.out and of no run in progress.
NoMeta   == [written |-> FALSE]
NoTxn    == [open |-> FALSE]
NoCscope == [exists |-> FALSE]
NoStore  == [taken |-> FALSE]

\* No function is called on its own.
NoCall == [called |-> FALSE]

\* The tables as one value (what a commit makes durable).
Store ==
    [files |-> files, symbols |-> symbols, symbols_fts |-> symbols_fts,
     raw_references |-> raw_references, symbol_edges |-> symbol_edges,
     file_edges |-> file_edges, metadata |-> metadata]

\* The tables take the values of s.
SetStore(s) ==
    /\ files' = s.files
    /\ symbols' = s.symbols
    /\ symbols_fts' = s.symbols_fts
    /\ raw_references' = s.raw_references
    /\ symbol_edges' = s.symbol_edges
    /\ file_edges' = s.file_edges
    /\ metadata' = s.metadata

EmptyStore ==
    [files |-> {}, symbols |-> {}, symbols_fts |-> {}, raw_references |-> <<>>,
     symbol_edges |-> {}, file_edges |-> <<>>, metadata |-> NoMeta]

MaxOf(S) == CHOOSE m \in S : \A n \in S : n <= m

\* The rowid an INSERT INTO symbols gets: one more than the largest in the table.
NextId(syms) == IF syms = {} THEN 1 ELSE MaxOf({r.id : r \in syms}) + 1

\* connect_db without its PRAGMA: SQLite's default, no enforcement
ForeignKeysOff == FALSE

\* PRAGMA foreign_keys = ON (connect_db)
ForeignKeysOn == TRUE

\* Indexer._clear_database: five DELETEs and a commit
ClearDatabase(s) ==
    [s EXCEPT !.symbol_edges = {},
              !.raw_references = <<>>,
              !.symbols = {},
              !.files = {},
              !.symbols_fts = {}]

\* The edges that refer to one of the symbol ids in ids.
EdgesOn(s, ids) ==
    {e \in s.symbol_edges : e.src_symbol_id \in ids \/ e.dst_symbol_id \in ids}

\* The ids of the symbols rows of a file.
IdsOfFile(s, rel) == {r.id : r \in {x \in s.symbols : x.file_path = rel}}

\* DELETE FROM symbols WHERE file_path = ? is refused (IntegrityError)
DeleteRefused(s, rel, mode) ==
    ForeignKeysOn /\ mode = "restrict" /\ EdgesOn(s, IdsOfFile(s, rel)) # {}

\* DELETE FROM symbols WHERE file_path = ?, with the schema's actions
DeleteSymbolsOfFile(s, rel, mode) ==
    [s EXCEPT !.symbols = {r \in @ : r.file_path # rel},
              !.symbols_fts = {r \in @ : r.rowid \notin IdsOfFile(s, rel)},
              !.symbol_edges =
                  IF ForeignKeysOn /\ mode = "cascade"
                  THEN @ \ EdgesOn(s, IdsOfFile(s, rel))
                  ELSE @]

\* INSERT OR REPLACE INTO files
InsertFile(s, rel) == [s EXCEPT !.files = @ \cup {rel}]

\* symbol_rows with the normalized type written to kind_raw
SymbolRowsNormalizedKind(s, rel, syms) ==
    {[id |-> NextId(s.symbols) + i - 1, name |-> syms[i].name,
      type |-> syms[i].type, kind_raw |-> syms[i].type,
      file_path |-> rel, line_number |-> syms[i].line,
      scope_kind |-> syms[i].scope_kind, scope_name |-> syms[i].scope_name]
        : i \in DOMAIN syms}

\* _index_file_with_symbols: symbol_rows, with the ids the insert gives them
SymbolRows(s, rel, syms) ==
    {[id |-> NextId(s.symbols) + i - 1, name |-> syms[i].name,
      type |-> syms[i].type, kind_raw |-> syms[i].kind_raw,
      file_path |-> rel, line_number |-> syms[i].line,
      scope_kind |-> syms[i].scope_kind, scope_name |-> syms[i].scope_name]
        : i \in DOMAIN syms}

\* INSERT INTO symbols (executemany), with the full-text rows of the schema
InsertSymbols(s, rel, syms) ==
    [s EXCEPT !.symbols = @ \cup SymbolRows(s, rel, syms),
              !.symbols_fts = @ \cup
                  {[rowid |-> r.id, name |-> r.name, file_path |-> r.file_path]
                      : r \in SymbolRows(s, rel, syms)}]

\* Indexer._index_file_with_symbols when no statement fails
IndexFileWithSymbols(s, rel, syms, mode) ==
    InsertSymbols(InsertFile(DeleteSymbolsOfFile(s, rel, mode), rel), rel, syms)

\* Indexer._update_metadata
UpdateMetadata(s, nsyms, nfiles) ==
    [s EXCEPT !.metadata = [total_symbols |-> nsyms, total_files |-> nfiles]]

-----------------------------------------------------------------------------
(* The cross-reference scanner (cscope) and its client *)

RECURSIVE Flatten(_)
Flatten(ss) == IF ss = <<>> THEN <<>> ELSE Head(ss) \o Flatten(Tail(ss))

MapSeq(s, Op(_)) == [i \in DOMAIN s |-> Op(s[i])]

\* The files a database was built from: the manifest's files found on disk.
ScannedFiles(cs) == SortPaths(cs.manifest \cap cs.tree.files)

\* cscope -dL -2 name: one record per call made inside function name
FindCallees(cs, name) ==
    Flatten(MapSeq(ScannedFiles(cs), LAMBDA f :
        MapSeq(SelectSeq(Calls(cs.tree.rev, f), LAMBDA c : c.caller = name),
               LAMBDA c : [file_path |-> f, function |-> c.callee,
                           line_number |-> c.line, line_text |-> c.text])))

\* cscope -dL -3 name: one record per call of function name
FindCallers(cs, name) ==
    Flatten(MapSeq(ScannedFiles(cs), LAMBDA f :
        MapSeq(SelectSeq(Calls(cs.tree.rev, f), LAMBDA c : c.callee = name),
               LAMBDA c : [file_path |-> f, function |-> c.caller,
                           line_number |-> c.line, line_text |-> c.text])))

\* cscope -dL -8 name: one record per #include of a file of that name
FindFilesIncluding(cs, name) ==
    Flatten(MapSeq(ScannedFiles(cs), LAMBDA f :
        MapSeq(SelectSeq(Includes(cs.tree.rev, f), LAMBDA c : c.header = name),
               LAMBDA c : [file_path |-> f, function |-> "<global>",
                           line_number |-> c.line, line_text |-> c.text])))

-----------------------------------------------------------------------------
(* Raw reference ingestion (reference_ingestor.py) *)

IsAbsolute(p) == p # <<>> /\ p[1] = "/"

IsUnder(p, root) == Len(p) >= Len(root) /\ SubSeq(p, 1, Len(root)) = root

\* ReferenceIngestor._normalize_path
NormalizePath(cscope_path, root) ==
    IF IsAbsolute(cscope_path) /\ IsUnder(cscope_path, root)
    THEN RelativeTo(cscope_path, root)
    ELSE cscope_path

SortById(S) == SortSeq(SetToSeq(S), LAMBDA a, b : a.id < b.id)

\* get_all_functions without its kind_raw test: prototypes are queried too
GetAllFunctionsAndPrototypes(s) ==
    SortById({r \in s.symbols : r.type = "function"})

\* ReferenceIngestor.get_all_functions
GetAllFunctions(s) ==
    SortById({r \in s.symbols : r.type = "function" /\ r.kind_raw = "function"})

\* ReferenceIngestor.get_all_headers: the paths LIKE '%.h', in path order
GetAllHeaders(s) == SortPaths({f \in s.files : EndsWith(Last(f), ".h")})

\* DELETE FROM raw_references WHERE query_type = ?
DeleteRaw(s, qt) ==
    [s EXCEPT !.raw_references = SelectSeq(@, LAMBDA r : r.query_type # qt)]

RawRow(qt, sym, ref, fn, root) ==
    [query_type |-> qt, query_symbol |-> sym,
     source_file |-> NormalizePath(ref.file_path, root),
     source_function |-> fn, line_number |-> ref.line_number,
     line_text |-> ref.line_text]

\* ReferenceIngestor.ingest_callees(clear_existing=True); a query that fails
\* (scanner_ok false) is skipped
IngestCallees(s, cs, root, scanner_ok) ==
    LET batch == Flatten(MapSeq(GetAllFunctions(s), LAMBDA fn :
                    IF scanner_ok
                    THEN MapSeq(FindCallees(cs, fn.name), LAMBDA ref :
                             RawRow("callees", fn.name, ref, ref.function, root))
                    ELSE <<>>))
    IN [DeleteRaw(s, "callees") EXCEPT !.raw_references = @ \o batch]

\* ReferenceIngestor.ingest_callers(clear_existing=True)
IngestCallers(s, cs, root, scanner_ok) ==
    LET batch == Flatten(MapSeq(GetAllFunctions(s), LAMBDA fn :
                    IF scanner_ok
                    THEN MapSeq(FindCallers(cs, fn.name), LAMBDA ref :
                             RawRow("callers", fn.name, ref, ref.function, root))
                    ELSE <<>>))
    IN [DeleteRaw(s, "callers") EXCEPT !.raw_references = @ \o batch]

\* ReferenceIngestor.ingest_includes(clear_existing=True)
IngestIncludes(s, cs, root, scanner_ok) ==
    LET batch == Flatten(MapSeq(GetAllHeaders(s), LAMBDA h :
                    IF scanner_ok
                    THEN MapSeq(FindFilesIncluding(cs, Last(h)), LAMBDA ref :
                             RawRow("includes", Last(h), ref, "<global>", root))
                    ELSE <<>>))
    IN [DeleteRaw(s, "includes") EXCEPT !.raw_references = @ \o batch]

\* Indexer.ingest_raw_references past its two early returns
IngestRawReferences(s, cs, root, scanner_ok) ==
    IngestIncludes(
        IngestCallers(IngestCallees(s, cs, root, scanner_ok), cs, root, scanner_ok),
        cs, root, scanner_ok)

-----------------------------------------------------------------------------
(* Edge resolution (reference_resolver.py) *)

Chars(str) == {SubSeq(str, i, i) : i \in 1..Len(str)}

IdentStart == Chars("abcdefghijklmnopqrstuvwxyzABCDEFGHIJKLMNOPQRSTUVWXYZ_")
IdentChar  == IdentStart \cup Chars("0123456789")
Space      == {" ", "\t"}

C_KEYWORDS ==
    {"if", "for", "while", "switch", "return", "sizeof", "typeof", "do",
     "else", "case", "break", "continue", "goto", "default"}

NoCallee == ""

At(str, i) == SubSeq(str, i, i)

RECURSIVE IdentEnd(_, _)
\* The last index of the identifier characters that start at i.
IdentEnd(str, i) ==
    IF i < Len(str) /\ At(str, i + 1) \in IdentChar
    THEN IdentEnd(str, i + 1) ELSE i

\* the pattern without its \s* : the identifier must touch the parenthesis
SkipSpaceNone(str, i) == i

RECURSIVE SkipSpace(_, _)
\* \s* from position i on: the index of the first character that is no space
SkipSpace(str, i) ==
    IF i <= Len(str) /\ At(str, i) \in Space THEN SkipSpace(str, i + 1) ELSE i

RECURSIVE ScanCallee(_, _)
\* re.findall(r'\b([a-zA-Z_][a-zA-Z0-9_]*)\s*\(') from position i on, and the
\* first match that is no keyword
ScanCallee(str, i) ==
    IF i > Len(str) THEN NoCallee
    ELSE IF /\ At(str, i) \in IdentStart
            /\ (i = 1 \/ At(str, i - 1) \notin IdentChar)
         THEN LET j == IdentEnd(str, i)
                  k == SkipSpace(str, j + 1)
              IN IF k <= Len(str) /\ At(str, k) = "("
                 THEN IF SubSeq(str, i, j) \in C_KEYWORDS
                      THEN ScanCallee(str, k + 1)
                      ELSE SubSeq(str, i, j)
                 ELSE ScanCallee(str, j + 1)
         ELSE ScanCallee(str, i + 1)

\* ReferenceResolver._extract_callee_from_line
ExtractCalleeFromLine(line_text) == ScanCallee(line_text, 1)

NoSymbol == 0

MinOf(S) == CHOOSE m \in S : \A n \in S : m <= n

\* SELECT id, file_path FROM symbols WHERE name = ? AND type = 'function'
FunctionsNamed(s, name) ==
    {r \in s.symbols : r.name = name /\ r.type = "function"}

\* _resolve_src_symbol picking the first row when no match is in source_file
ResolveSrcSymbolFirst(s, query_symbol, source_file) ==
    LET results == FunctionsNamed(s, query_symbol)
        same == {r.id : r \in {x \in results : x.file_path = source_file}}
    IN IF results = {} THEN NoSymbol
       ELSE IF Cardinality(results) = 1 THEN (CHOOSE r \in results : TRUE).id
       ELSE IF same # {} THEN MinOf(same)
       ELSE MinOf({r.id : r \in results})

\* ReferenceResolver._resolve_src_symbol
ResolveSrcSymbol(s, query_symbol, source_file) ==
    LET results == FunctionsNamed(s, query_symbol)
        same == {r.id : r \in {x \in results : x.file_path = source_file}}
    IN IF results = {} THEN NoSymbol
       ELSE IF Cardinality(results) = 1 THEN (CHOOSE r \in results : TRUE).id
       ELSE IF same # {} THEN MinOf(same)
       ELSE NoSymbol

\* _resolve_dst_symbol preferring any .c candidate, however many there are
ResolveDstSymbolAnyC(s, callee_name, source_file) ==
    LET results == FunctionsNamed(s, callee_name)
        same == {r.id : r \in {x \in results : x.file_path = source_file}}
        c_files == {r \in results : EndsWith(Last(r.file_path), ".c")}
    IN IF results = {} THEN NoSymbol
       ELSE IF Cardinality(results) = 1 THEN (CHOOSE r \in results : TRUE).id
       ELSE IF same # {} THEN MinOf(same)
       ELSE IF c_files # {} THEN MinOf({r.id : r \in c_files})
       ELSE NoSymbol

\* ReferenceResolver._resolve_dst_symbol
ResolveDstSymbol(s, callee_name, source_file) ==
    LET results == FunctionsNamed(s, callee_name)
        same == {r.id : r \in {x \in results : x.file_path = source_file}}
        c_files == {r \in results : EndsWith(Last(r.file_path), ".c")}
    IN IF results = {} THEN NoSymbol
       ELSE IF Cardinality(results) = 1 THEN (CHOOSE r \in results : TRUE).id
       ELSE IF same # {} THEN MinOf(same)
       ELSE IF Cardinality(c_files) = 1 THEN (CHOOSE r \in c_files : TRUE).id
       ELSE NoSymbol

\* The CALLS edge of one callees row, or none: the loop body of resolve_callees
CallsEdge(s, row) ==
    LET callee_name == ExtractCalleeFromLine(row.line_text)
        src == ResolveSrcSymbol(s, row.query_symbol, row.source_file)
        dst == ResolveDstSymbol(s, callee_name, row.source_file)
    IN IF callee_name = NoCallee \/ src = NoSymbol \/ dst = NoSymbol THEN <<>>
       ELSE <<[edge_type |-> "CALLS", src_symbol_id |-> src,
               dst_symbol_id |-> dst, source_file |-> row.source_file,
               line_number |-> row.line_number]>>

\* The class resolve_callees counts one callees row in: the three `continue`
\* branches of its loop, or the append to edges_batch
RowClass(s, row) ==
    LET callee_name == ExtractCalleeFromLine(row.line_text)
    IN IF callee_name = NoCallee THEN "no_callee_in_line"
       ELSE IF ResolveSrcSymbol(s, row.query_symbol, row.source_file) = NoSymbol
       THEN "src_not_found"
       ELSE IF ResolveDstSymbol(s, callee_name, row.source_file) = NoSymbol
       THEN "dst_not_found_or_ambiguous"
       ELSE "resolved"

\* The columns of the UNIQUE constraint of symbol_edges.
EdgeKey(e) ==
    <<e.edge_type, e.src_symbol_id, e.dst_symbol_id, e.source_file, e.line_number>>

\* symbol_edges without its UNIQUE constraint
UniqueEdgesOff == FALSE

\* symbol_edges has UNIQUE(edge_type, src, dst, source_file, line_number).
UniqueEdges == TRUE

\* executemany INSERT OR IGNORE INTO symbol_edges: the rows of the batch in
\* order, each given the next id unless the constraint makes it ignored
InsertOrIgnoreEdges(edges, batch) ==
    LET acc[i \in 0..Len(batch)] ==
            IF i = 0 THEN edges
            ELSE IF UniqueEdges
                    /\ \E e \in acc[i - 1] : EdgeKey(e) = EdgeKey(batch[i])
                 THEN acc[i - 1]
                 ELSE acc[i - 1] \cup
                        {[id |-> NextId(acc[i - 1]),
                          edge_type |-> batch[i].edge_type,
                          src_symbol_id |-> batch[i].src_symbol_id,
                          dst_symbol_id |-> batch[i].dst_symbol_id,
                          source_file |-> batch[i].source_file,
                          line_number |-> batch[i].line_number]}
    IN acc[Len(batch)]

\* ReferenceResolver.resolve_callees(clear_existing=True)
ResolveCallees(s) ==
    LET raw_refs == SelectSeq(s.raw_references, LAMBDA r : r.query_type = "callees")
        cleared == {e \in s.symbol_edges : e.edge_type # "CALLS"}
        edges_batch == Flatten(MapSeq(raw_refs, LAMBDA r : CallsEdge(s, r)))
    IN [s EXCEPT !.symbol_edges = InsertOrIgnoreEdges(cleared, edges_batch)]

RECURSIVE AsPosix(_)
\* Path.as_posix()
AsPosix(p) ==
    IF Len(p) = 1 THEN p[1] ELSE p[1] \o "/" \o AsPosix(Tail(p))

HasSlash(str) == \E i \in 1..Len(str) : At(str, i) = "/"

UpperCase == "ABCDEFGHIJKLMNOPQRSTUVWXYZ"
LowerCase == "abcdefghijklmnopqrstuvwxyz"

\* SQLite folds the ASCII letters when LIKE compares two characters.
Fold(c) ==
    IF \E i \in 1..Len(UpperCase) : At(UpperCase, i) = c
    THEN At(LowerCase, CHOOSE i \in 1..Len(UpperCase) : At(UpperCase, i) = c)
    ELSE c

RECURSIVE Like(_, _)
\* SQLite's  str LIKE pattern : % is any run of characters, _ any one
\* character, every other character itself up to ASCII case
Like(str, pattern) ==
    IF pattern = "" THEN str = ""
    ELSE LET rest == SubSeq(pattern, 2, Len(pattern))
         IN IF At(pattern, 1) = "%"
            THEN Like(str, rest)
                   \/ (str # "" /\ Like(SubSeq(str, 2, Len(str)), pattern))
            ELSE /\ str # ""
                 /\ At(pattern, 1) = "_" \/ Fold(At(pattern, 1)) = Fold(At(str, 1))
                 /\ Like(SubSeq(str, 2, Len(str)), rest)

\* ReferenceResolver._resolve_header_path: the matching paths
\* (path LIKE '%/' || query_symbol OR path = query_symbol)
ResolveHeaderPath(s, query_symbol) ==
    IF HasSlash(query_symbol)
    THEN {f \in s.files : AsPosix(f) = query_symbol}
    ELSE {f \in s.files : \/ Like(AsPosix(f), "%/" \o query_symbol)
                          \/ AsPosix(f) = query_symbol}

\* The INCLUDES edge of one includes row, or none
IncludesEdge(s, row) ==
    LET matches == ResolveHeaderPath(s, row.query_symbol)
    IN IF Cardinality(matches) # 1 THEN <<>>
       ELSE <<[edge_type |-> "INCLUDES", src_file |-> row.source_file,
               dst_file |-> CHOOSE f \in matches : TRUE,
               line_number |-> row.line_number]>>

\* resolve_includes(clear_existing=False)
ResolveIncludesKeepExisting(s) ==
    LET raw_refs == SelectSeq(s.raw_references, LAMBDA r : r.query_type = "includes")
    IN [s EXCEPT !.file_edges =
            @ \o Flatten(MapSeq(raw_refs, LAMBDA r : IncludesEdge(s, r)))]

\* ReferenceResolver.resolve_includes(clear_existing=True)
ResolveIncludes(s) ==
    LET raw_refs == SelectSeq(s.raw_references, LAMBDA r : r.query_type = "includes")
        cleared == SelectSeq(s.file_edges, LAMBDA e : e.edge_type # "INCLUDES")
    IN [s EXCEPT !.file_edges =
            cleared \o Flatten(MapSeq(raw_refs, LAMBDA r : IncludesEdge(s, r)))]

\* Indexer.resolve_semantic_edges
ResolveSemanticEdges(s) == ResolveIncludes(ResolveCallees(s))

-----------------------------------------------------------------------------
(* indexer.main: one run of the command line *)

\* The click options that select stages, and --force.
FlagSets ==
    [refs : BOOLEAN, build_cscope : BOOLEAN, ingest_refs : BOOLEAN,
     resolve_refs : BOOLEAN, force : BOOLEAN]

NoFlags ==
    [refs |-> FALSE, build_cscope |-> FALSE, ingest_refs |-> FALSE,
     resolve_refs |-> FALSE, force |-> FALSE]

run_build_cscope == flags.refs \/ flags.build_cscope
run_ingest       == flags.refs \/ flags.ingest_refs
run_resolve      == flags.refs \/ flags.resolve_refs

\* Stage 1 runs unless a stage-specific ingest or resolve was asked for.
RunsStage1(f) == ~(f.ingest_refs \/ f.resolve_refs)

\* main with Stage 3 placed before Stage 2b
AfterResolveFirst(p) ==
    CASE p = "index"   -> "meta"
      [] p = "meta"    -> "build"
      [] p = "build"   -> "resolve"
      [] p = "resolve" -> "ingest"
      [] p = "ingest"  -> "stats"

\* _update_metadata called at the end of main instead of index_directory
AfterMetadataLast(p) ==
    CASE p = "index"   -> "build"
      [] p = "build"   -> "ingest"
      [] p = "ingest"  -> "resolve"
      [] p = "resolve" -> "meta"
      [] p = "meta"    -> "stats"

\* The statement order of index_directory's tail and of main: the commit,
\* _update_metadata, then Stage 2a, Stage 2b, Stage 3, print_stats.
After(p) ==
    CASE p = "index"   -> "meta"
      [] p = "meta"    -> "build"
      [] p = "build"   -> "ingest"
      [] p = "ingest"  -> "resolve"
      [] p = "resolve" -> "stats"

Init ==
    /\ source_root = <<"/", "home", "u", "proj">>
    /\ extensions = <<".c", ".h">>
    /\ tree = Tree1
    /\ files_to_index = <<>>
    /\ idx = 0
    /\ total_symbols = 0
    /\ files = {}
    /\ symbols = {}
    /\ symbols_fts = {}
    /\ raw_references = <<>>
    /\ symbol_edges = {}
    /\ file_edges = <<>>
    /\ metadata = NoMeta
    /\ txn = NoTxn
    /\ cscope_out = NoCscope
    /\ on_delete \in {"restrict", "cascade"}
    /\ flags = NoFlags
    /\ pc = "idle"
    /\ runs = 0
    /\ faults = 0
    /\ store0 = NoStore
    /\ trace = <<>>
    /\ arg = NoCall
    /\ ret = NoCall

\* The working tree is edited between two runs.
EditTree ==
    /\ pc = "idle"
    /\ tree' \in Trees \ {tree}
    /\ UNCHANGED <<arg, ret, source_root, extensions, files_to_index, idx, total_symbols,
                   files, symbols, symbols_fts, raw_references, symbol_edges,
                   file_edges, metadata, txn, cscope_out, on_delete, flags, pc,
                   runs, faults, store0, trace>>

\* main up to the choice of stages: connect_db, the run_* flags
StartRunWarnOnly ==
    /\ pc = "idle"
    /\ runs < MaxRuns
    /\ runs' = runs + 1
    /\ store0' = Store
    /\ \E f \in FlagSets :
          /\ flags' = f
          /\ pc' = IF RunsStage1(f) THEN "discover" ELSE After("meta")
          /\ \/ /\ trace' = <<>>
                /\ UNCHANGED faults
             \/ /\ faults < MaxFaults
                /\ faults' = faults + 1
                /\ trace' = <<"ctags missing">>
    /\ UNCHANGED <<arg, ret, source_root, extensions, tree, files_to_index, idx,
                   total_symbols, files, symbols, symbols_fts, raw_references,
                   symbol_edges, file_edges, metadata, txn, cscope_out,
                   on_delete>>

\* main: the options are read and Indexer(db) is constructed
StartRun ==
    /\ pc = "idle"
    /\ runs < MaxRuns
    /\ runs' = runs + 1
    /\ store0' = Store
    /\ \E f \in FlagSets :
          /\ flags' = f
          /\ \/ \* Indexer(db) is constructed and the stages begin
                /\ pc' = IF RunsStage1(f) THEN "discover" ELSE After("meta")
                /\ trace' = <<>>
                /\ UNCHANGED faults
             \/ \* the extractor is not installed: CTagsParser._verify_ctags
                \* raises in Indexer.__init__, before main's try block
                /\ faults < MaxFaults
                /\ faults' = faults + 1
                /\ trace' = <<"ctags missing">>
                /\ pc' = "failed"
    /\ UNCHANGED <<arg, ret, source_root, extensions, tree, files_to_index, idx,
                   total_symbols, files, symbols, symbols_fts, raw_references,
                   symbol_edges, file_edges, metadata, txn, cscope_out,
                   on_delete>>

\* index_directory: FileDiscovery(...).discover_files_absolute()
Discover ==
    /\ pc = "discover"
    /\ files_to_index' = DiscoverFilesAbsolute(source_root, tree, extensions)
    /\ pc' = "prompt"
    /\ UNCHANGED <<arg, ret, source_root, extensions, tree, idx, total_symbols, files,
                   symbols, symbols_fts, raw_references, symbol_edges,
                   file_edges, metadata, txn, cscope_out, on_delete, flags,
                   runs, faults, store0, trace>>

\* The symbols Stage 1 would insert for the discovered files.
NewSymbolCount ==
    LET n[i \in 0..Len(files_to_index)] ==
            IF i = 0 THEN 0
            ELSE n[i - 1]
                 + Len(ParseRoot(tree, RelativeTo(files_to_index[i], source_root)))
    IN n[Len(files_to_index)]

\* index_directory: --force, or the prompt answered yes: _clear_database()
ClearStep ==
    /\ pc = "prompt"
    /\ SetStore(ClearDatabase(Store))
    /\ trace' = Append(trace, "clear")
    /\ pc' = "ctags"
    /\ UNCHANGED <<arg, ret, source_root, extensions, tree, files_to_index, idx,
                   total_symbols, txn, cscope_out, on_delete, flags, runs,
                   faults, store0>>

\* index_directory: the prompt answered no
DeclineClear ==
    /\ pc = "prompt"
    /\ ~flags.force
    /\ NextId(symbols) + NewSymbolCount - 1 <= MaxSymbolId
    /\ pc' = "ctags"
    /\ UNCHANGED <<arg, ret, source_root, extensions, tree, files_to_index, idx,
                   total_symbols, files, symbols, symbols_fts, raw_references,
                   symbol_edges, file_edges, metadata, txn, cscope_out,
                   on_delete, flags, runs, faults, store0, trace>>

\* index_directory: ctags.parse_root(...), then BEGIN; an exception of
\* parse_root is raised outside the try block and ends the run
RunCtags ==
    /\ pc = "ctags"
    /\ \/ /\ txn' = Store
          /\ idx' = 1
          /\ total_symbols' = 0
          /\ pc' = "index"
          /\ UNCHANGED faults
       \/ /\ faults < MaxFaults
          /\ faults' = faults + 1
          /\ pc' = "failed"
          /\ UNCHANGED <<txn, idx, total_symbols>>
    /\ UNCHANGED <<arg, ret, source_root, extensions, tree, files_to_index, files,
                   symbols, symbols_fts, raw_references, symbol_edges,
                   file_edges, metadata, cscope_out, on_delete, flags, runs,
                   store0, trace>>

\* index_directory: one turn of the loop over files_to_index; an exception in
\* it is caught and the loop goes on
IndexFile ==
    /\ pc = "index"
    /\ idx <= Len(files_to_index)
    /\ LET rel == RelativeTo(files_to_index[idx], source_root)
           syms == ParseRoot(tree, rel)
       IN \/ \* every statement succeeds
             /\ ~DeleteRefused(Store, rel, on_delete)
             /\ SetStore(IndexFileWithSymbols(Store, rel, syms, on_delete))
             /\ total_symbols' = total_symbols + Len(syms)
             /\ UNCHANGED <<faults, trace>>
          \/ \* the DELETE is refused: nothing is written for the file
             /\ DeleteRefused(Store, rel, on_delete)
             /\ SetStore(Store)
             /\ total_symbols' = total_symbols
             /\ UNCHANGED <<faults, trace>>
          \/ \* open() raises: nothing is written for the file
             /\ faults < MaxFaults
             /\ faults' = faults + 1
             /\ SetStore(Store)
             /\ total_symbols' = total_symbols
             /\ UNCHANGED trace
          \/ \* the symbols insert raises after the files row was written
             /\ faults < MaxFaults
             /\ faults' = faults + 1
             /\ ~DeleteRefused(Store, rel, on_delete)
             /\ syms # <<>>
             /\ SetStore(InsertFile(DeleteSymbolsOfFile(Store, rel, on_delete), rel))
             /\ total_symbols' = total_symbols
             /\ trace' = Append(trace, "insert error")
    /\ idx' = idx + 1
    /\ UNCHANGED <<arg, ret, source_root, extensions, tree, files_to_index, txn,
                   cscope_out, on_delete, flags, pc, runs, store0>>

\* index_directory: conn.commit() after the loop
Commit ==
    /\ pc = "index"
    /\ idx > Len(files_to_index)
    /\ txn' = NoTxn
    /\ trace' = Append(trace, "symbols")
    /\ pc' = After("index")
    /\ UNCHANGED <<arg, ret, source_root, extensions, tree, files_to_index, idx,
                   total_symbols, files, symbols, symbols_fts, raw_references,
                   symbol_edges, file_edges, metadata, cscope_out, on_delete,
                   flags, runs, faults, store0>>

\* index_directory: the commit raises: rollback, re-raise; main closes the
\* connection and the run ends
CommitFails ==
    /\ pc = "index"
    /\ idx > Len(files_to_index)
    /\ faults < MaxFaults
    /\ faults' = faults + 1
    /\ SetStore(txn)
    /\ txn' = NoTxn
    /\ pc' = "failed"
    /\ UNCHANGED <<arg, ret, source_root, extensions, tree, files_to_index, idx,
                   total_symbols, cscope_out, on_delete, flags, runs, store0,
                   trace>>

\* index_directory: _update_metadata(total_symbols, len(files_to_index))
WriteMetadata ==
    /\ pc = "meta"
    /\ SetStore(UpdateMetadata(Store, total_symbols, Len(files_to_index)))
    /\ trace' = Append(trace, "meta")
    /\ pc' = After("meta")
    /\ UNCHANGED <<arg, ret, source_root, extensions, tree, files_to_index, idx,
                   total_symbols, txn, cscope_out, on_delete, flags, runs,
                   faults, store0>>

\* main: Stage 2a, build_cscope_database
BuildCscope ==
    /\ pc = "build"
    /\ \/ \* not selected, or no files row: nothing is built
          /\ ~run_build_cscope \/ files = {}
          /\ UNCHANGED <<cscope_out, trace, faults>>
       \/ \* cscope -b succeeds
          /\ run_build_cscope /\ files # {}
          /\ cscope_out' = [exists |-> TRUE, manifest |-> files, tree |-> tree]
          /\ trace' = Append(trace, "xref")
          /\ UNCHANGED faults
       \/ \* cscope is missing or exits non-zero: the error is printed
          /\ run_build_cscope /\ files # {}
          /\ faults < MaxFaults
          /\ faults' = faults + 1
          /\ trace' = Append(trace, "xref failed")
          /\ UNCHANGED cscope_out
    /\ pc' = After("build")
    /\ UNCHANGED <<arg, ret, source_root, extensions, tree, files_to_index, idx,
                   total_symbols, files, symbols, symbols_fts, raw_references,
                   symbol_edges, file_edges, metadata, txn, on_delete, flags,
                   runs, store0>>

\* main: Stage 2b, ingest_raw_references
Ingest ==
    /\ pc = "ingest"
    /\ \/ \* not selected, or no cscope.out on disk
          /\ ~run_ingest \/ cscope_out = NoCscope
          /\ SetStore(Store)
          /\ UNCHANGED <<trace, faults>>
       \/ \* every query is answered
          /\ run_ingest /\ cscope_out # NoCscope
          /\ SetStore(IngestRawReferences(Store, cscope_out, source_root, TRUE))
          /\ trace' = Append(trace, "ingest")
          /\ UNCHANGED faults
       \/ \* the queries fail: each is logged and skipped
          /\ run_ingest /\ cscope_out # NoCscope
          /\ faults < MaxFaults
          /\ faults' = faults + 1
          /\ SetStore(IngestRawReferences(Store, cscope_out, source_root, FALSE))
          /\ trace' = Append(trace, "ingest")
    /\ pc' = After("ingest")
    /\ UNCHANGED <<arg, ret, source_root, extensions, tree, files_to_index, idx,
                   total_symbols, txn, cscope_out, on_delete, flags, runs,
                   store0>>

\* main: Stage 3, resolve_semantic_edges
Resolve ==
    /\ pc = "resolve"
    /\ \/ /\ ~run_resolve
          /\ SetStore(Store)
          /\ UNCHANGED trace
       \/ /\ run_resolve
          /\ SetStore(ResolveSemanticEdges(Store))
          /\ trace' = Append(trace, "resolve")
    /\ pc' = After("resolve")
    /\ UNCHANGED <<arg, ret, source_root, extensions, tree, files_to_index, idx,
                   total_symbols, txn, cscope_out, on_delete, flags, runs,
                   faults, store0>>

\* main: print_stats, close_db; or the process ends after the exception
Finish ==
    /\ pc \in {"stats", "failed"}
    /\ pc' = "idle"
    /\ flags' = NoFlags
    /\ files_to_index' = <<>>
    /\ idx' = 0
    /\ total_symbols' = 0
    /\ store0' = NoStore
    /\ trace' = <<>>
    /\ UNCHANGED <<arg, ret, source_root, extensions, tree, files, symbols, symbols_fts,
                   raw_references, symbol_edges, file_edges, metadata, txn,
                   cscope_out, on_delete, runs, faults>>

Next ==
    \/ EditTree
    \/ StartRun
    \/ Discover
    \/ ClearStep
    \/ DeclineClear
    \/ RunCtags
    \/ IndexFile
    \/ Commit
    \/ CommitFails
    \/ WriteMetadata
    \/ BuildCscope
    \/ Ingest
    \/ Resolve
    \/ Finish

Spec == Init /\ [][Next]_vars

-----------------------------------------------------------------------------
(* File discovery on its own: any tree, under any of three source roots *)

Roots ==
    {<<"/", "home", "u", "proj">>,
     <<"/", "home", "build", "proj">>,
     <<"/", "src">>}

DiscoveryFiles == {F_AC, F_BH, F_GC, F_TXT, F_OC, F_SRC, F_VH}

ExtensionLists == {<<".c", ".h">>, <<".c">>, <<".h">>}

InitDiscovery ==
    /\ source_root \in Roots
    /\ extensions \in ExtensionLists
    /\ tree \in {[files |-> S, rev |-> 1] : S \in SUBSET DiscoveryFiles}
    /\ files_to_index = <<>>
    /\ idx = 0
    /\ total_symbols = 0
    /\ files = {}
    /\ symbols = {}
    /\ symbols_fts = {}
    /\ raw_references = <<>>
    /\ symbol_edges = {}
    /\ file_edges = <<>>
    /\ metadata = NoMeta
    /\ txn = NoTxn
    /\ cscope_out = NoCscope
    /\ on_delete = "restrict"
    /\ flags = NoFlags
    /\ pc = "discover"
    /\ runs = 1
    /\ faults = 0
    /\ store0 = EmptyStore
    /\ trace = <<>>
    /\ arg = NoCall
    /\ ret = NoCall

SpecDiscovery == InitDiscovery /\ [][Discover]_vars

-----------------------------------------------------------------------------
(* Functions called on their own *)

\* Every variable of the pipeline but pc, files and symbols; NoPipeline
\* leaves source_root open as well.
pipeline_vars ==
    <<source_root, extensions, tree, files_to_index, idx, total_symbols,
      symbols_fts, raw_references, symbol_edges, file_edges, metadata, txn,
      cscope_out, on_delete, flags, runs, faults, store0, trace>>

\* No pipeline run is in progress and none has written anything.
NoPipeline ==
    /\ extensions = <<".c", ".h">>
    /\ tree = Tree1
    /\ files_to_index = <<>>
    /\ idx = 0
    /\ total_symbols = 0
    /\ symbols_fts = {}
    /\ raw_references = <<>>
    /\ symbol_edges = {}
    /\ file_edges = <<>>
    /\ metadata = NoMeta
    /\ txn = NoTxn
    /\ cscope_out = NoCscope
    /\ on_delete = "restrict"
    /\ flags = NoFlags
    /\ runs = 0
    /\ faults = 0
    /\ store0 = NoStore
    /\ trace = <<>>

\* The sequences over S of length at most n.
SeqsUpTo(S, n) == UNION {[1..k -> S] : k \in 0..n}

\* The tags the extractor may emit for a file with anonymous aggregates.
TagPool ==
    { [Tag("S", "typedef", 3) EXCEPT !.typeref = "struct:__anon1"],
      [Tag("S2", "typedef", 3) EXCEPT !.typeref = "struct:__anon1"],
      [Tag("x", "member", 2) EXCEPT !.scope = "__anon1", !.scopeKind = "struct"],
      Tag("__anon1", "struct", 1),
      [Tag("y", "member", 5) EXCEPT !.scope = "__anon2", !.scopeKind = "union"],
      [Tag("__anon_t", "typedef", 6) EXCEPT !.typeref = "union:__anon2"],
      Tag("f", "prototype", 8),
      [Tag("z", "member", 9) EXCEPT !.scope = "P", !.scopeKind = "struct"] }

\* The extractor's run on a file: what it wrote to stdout and its exit code.
InitAdapter ==
    /\ NoPipeline
    /\ source_root = <<"/", "home", "u", "proj">>
    /\ files = {}
    /\ symbols = {}
    /\ pc = "parse_file"
    /\ arg \in [tags : SeqsUpTo(TagPool, MaxTags), returncode : {0, 1}]
    /\ ret = NoCall

\* CTagsParser.parse_file: a CalledProcessError is a warning and no symbols
ParseFile ==
    /\ pc = "parse_file"
    /\ ret' = IF arg.returncode # 0 THEN <<>> ELSE ParseTags(arg.tags)
    /\ pc' = "parsed"
    /\ UNCHANGED <<arg, files, symbols, pipeline_vars>>

SpecAdapter == InitAdapter /\ [][ParseFile]_vars

\* The paths a scanner record may carry: relative ones, and absolute ones
\* under any of the three roots.
ScannerPaths ==
    DiscoveryFiles \cup {r \o p : r \in Roots, p \in DiscoveryFiles}

InitNormalize ==
    /\ NoPipeline
    /\ source_root \in Roots
    /\ files = {}
    /\ symbols = {}
    /\ pc = "normalize_path"
    /\ arg \in ScannerPaths
    /\ ret = NoCall

\* ReferenceIngestor._normalize_path on the scanner path arg
NormalizePathCall ==
    /\ pc = "normalize_path"
    /\ ret' = NormalizePath(arg, source_root)
    /\ pc' = "normalized"
    /\ UNCHANGED <<arg, files, symbols, pipeline_vars>>

SpecNormalize == InitNormalize /\ [][NormalizePathCall]_vars

-----------------------------------------------------------------------------
(* The file tree service of the query server (backend/services/file_tree.py) *)

\* The characters of the paths, in code point order.
CharOrder == "%./0123456789ABCDEFGHIJKLMNOPQRSTUVWXYZ_abcdefghijklmnopqrstuvwxyz"

CharRank(c) == CHOOSE i \in 1..Len(CharOrder) : At(CharOrder, i) = c

RECURSIVE StrLess(_, _)
\* Python's a < b on two strings
StrLess(a, b) ==
    IF b = "" THEN FALSE
    ELSE IF a = "" THEN TRUE
    ELSE IF At(a, 1) # At(b, 1) THEN CharRank(At(a, 1)) < CharRank(At(b, 1))
    ELSE StrLess(SubSeq(a, 2, Len(a)), SubSeq(b, 2, Len(b)))

\* str.find('/'), counted from 1; 0 when there is none
FindSlash(str) ==
    IF HasSlash(str) THEN CHOOSE i \in 1..Len(str) :
                              At(str, i) = "/" /\ \A j \in 1..(i - 1) : At(str, j) # "/"
    ELSE 0

\* str[n:]
From(str, n) == IF n >= Len(str) THEN "" ELSE SubSeq(str, n + 1, Len(str))

\* The files table as the query server reads it: posix path strings.
PathStrings(s) == {AsPosix(f) : f \in s.files}

\* relative[:slash_pos], or relative when it has no slash
FirstSegment(relative) ==
    IF FindSlash(relative) = 0 THEN relative
    ELSE SubSeq(relative, 1, FindSlash(relative) - 1)

\* FileTreeService._count_immediate_children
CountImmediateChildren(s, parent_path) ==
    Cardinality({FirstSegment(From(fp, Len(parent_path))) :
                    fp \in {x \in PathStrings(s) : Like(x, parent_path \o "%")}})

\* SELECT COUNT(*) FROM symbols WHERE file_path = ?
SymbolCountOfFile(s, child_path) ==
    Cardinality({r \in s.symbols : AsPosix(r.file_path) = child_path})

\* SELECT COUNT(*) FROM symbols WHERE file_path LIKE child_path || '%'
SymbolCountUnder(s, child_path) ==
    Cardinality({r \in s.symbols : Like(AsPosix(r.file_path), child_path \o "%")})

\* get_children: the children dictionary with its counts
Children(s, path) ==
    LET all_files == IF path # ""
                     THEN {fp \in PathStrings(s) :
                              Like(fp, path \o "%") /\ StartsWith(fp, path)}
                     ELSE PathStrings(s)
        Child(fp) ==
            LET relative == From(fp, Len(path))
            IN IF FindSlash(relative) = 0
               THEN [name |-> relative, path |-> fp, kind |-> "file",
                     symbol_count |-> SymbolCountOfFile(s, fp)]
               ELSE LET child_path == path \o FirstSegment(relative) \o "/"
                    IN [name |-> FirstSegment(relative), path |-> child_path,
                        kind |-> "dir",
                        children_count |-> CountImmediateChildren(s, child_path),
                        symbol_count |-> SymbolCountUnder(s, child_path)]
    IN {Child(fp) : fp \in all_files}

\* result.sort(key=lambda x: (x["kind"] == "file", x["name"]))
ChildBefore(a, b) ==
    \/ a.kind = "dir" /\ b.kind = "file"
    \/ a.kind = b.kind /\ StrLess(a.name, b.name)

\* FileTreeService.get_children
GetChildren(s, path) ==
    LET p == IF path # "" /\ ~EndsWith(path, "/") THEN path \o "/" ELSE path
    IN SortSeq(SetToSeq(Children(s, p)), ChildBefore)

\* The stored paths the service is asked about.
TreePoolSeq ==
    << <<"a_b", "x.c">>, <<"a_b", "sub", "z.c">>, <<"axb", "y.c">>,
       <<"Src", "p.c">>, <<"src", "q.c">>, <<"inc", "b.h">>, <<"m.c">> >>

TreePool == Range(TreePoolSeq)

\* The directories asked for: the argument and its components.
TreeQueries ==
    { [path |-> "", dir |-> <<>>], [path |-> "a_b", dir |-> <<"a_b">>],
      [path |-> "a_b/", dir |-> <<"a_b">>], [path |-> "src", dir |-> <<"src">>] }

\* Two symbols in every stored .c file, one in every other file.
TreeSymbols(fs) ==
    LET n(f) == CHOOSE i \in DOMAIN TreePoolSeq : TreePoolSeq[i] = f
        rows == {[id |-> 2 * n(f) + k - 2, name |-> "s", type |-> "function",
                  kind_raw |-> "function", file_path |-> f, line_number |-> k,
                  scope_kind |-> Absent, scope_name |-> Absent]
                    : f \in fs, k \in 1..2}
    IN {r \in rows : r.line_number = 1 \/ EndsWith(Last(r.file_path), ".c")}

InitFileTree ==
    /\ NoPipeline
    /\ source_root = <<"/", "home", "u", "proj">>
    /\ files \in SUBSET TreePool
    /\ symbols = TreeSymbols(files)
    /\ pc = "get_children"
    /\ arg \in TreeQueries
    /\ ret = NoCall

\* FileTreeService.get_children(arg.path) on the store
GetChildrenCall ==
    /\ pc = "get_children"
    /\ ret' = GetChildren(Store, arg.path)
    /\ pc' = "children"
    /\ UNCHANGED <<arg, files, symbols, pipeline_vars>>

SpecFileTree == InitFileTree /\ [][GetChildrenCall]_vars

-----------------------------------------------------------------------------
(* Header resolution on its own *)

\* The stored headers and the names an #include may give.
HeaderPool ==
    { <<"inc", "b.h">>, <<"lib", "B.h">>, <<"b.h">>,
      <<"inc", "a_b.h">>, <<"inc", "axb.h">>, <<"a_b.h">> }

HeaderNames == {"b.h", "B.h", "a_b.h", "axb.h", "c.h"}

InitHeader ==
    /\ NoPipeline
    /\ source_root = <<"/", "home", "u", "proj">>
    /\ files \in SUBSET HeaderPool
    /\ symbols = {}
    /\ pc = "resolve_header"
    /\ arg \in HeaderNames
    /\ ret = NoCall

\* ReferenceResolver._resolve_header_path(arg): the rows it fetched
ResolveHeaderCall ==
    /\ pc = "resolve_header"
    /\ ret' = ResolveHeaderPath(Store, arg)
    /\ pc' = "header"
    /\ UNCHANGED <<arg, files, symbols, pipeline_vars>>

SpecHeader == InitHeader /\ [][ResolveHeaderCall]_vars

-----------------------------------------------------------------------------
(* The resolution of one callees row on its own *)

\* A symbols row of the pool.
PoolSymbol(id, name, kind, file) ==
    [id |-> id, name |-> name, type |-> TypeMap(kind), kind_raw |-> kind,
     file_path |-> file, line_number |-> id, scope_kind |-> Absent,
     scope_name |-> Absent]

\* Functions f and g defined and declared in several files, a macro f, and a
\* function h declared in a.c above its definition.
SymbolPool ==
    { PoolSymbol(1, "f", "function", <<"a.c">>),
      PoolSymbol(2, "f", "prototype", <<"a.c">>),
      PoolSymbol(3, "f", "function", <<"b.c">>),
      PoolSymbol(4, "f", "prototype", <<"inc", "b.h">>),
      PoolSymbol(5, "g", "function", <<"b.c">>),
      PoolSymbol(6, "g", "function", <<"g.c">>),
      PoolSymbol(7, "g", "prototype", <<"inc", "b.h">>),
      PoolSymbol(8, "f", "macro", <<"g.c">>),
      PoolSymbol(9, "h", "prototype", <<"a.c">>),
      PoolSymbol(10, "h", "function", <<"a.c">>) }

\* The callees rows: the caller asked about, the file and the line of a call.
CalleesRows ==
    { [query_type |-> "callees", query_symbol |-> q, source_file |-> sf,
       source_function |-> q, line_number |-> 9, line_text |-> t]
        : q \in {"f", "g", "h"}, sf \in {<<"a.c">>, <<"g.c">>, <<"x.c">>},
          t \in {"f(1);", "return g();"} }

InitResolveRow ==
    /\ NoPipeline
    /\ source_root = <<"/", "home", "u", "proj">>
    /\ files = {}
    /\ symbols \in SUBSET SymbolPool
    /\ pc = "resolve_row"
    /\ arg \in CalleesRows
    /\ ret = NoCall

\* resolve_callees: one turn of the loop, on the raw row arg
ResolveRowCall ==
    /\ pc = "resolve_row"
    /\ ret' = [src |-> ResolveSrcSymbol(Store, arg.query_symbol, arg.source_file),
               dst |-> ResolveDstSymbol(Store, ExtractCalleeFromLine(arg.line_text),
                                        arg.source_file),
               edges |-> CallsEdge(Store, arg)]
    /\ pc' = "row"
    /\ UNCHANGED <<arg, files, symbols, pipeline_vars>>

SpecResolveRow == InitResolveRow /\ [][ResolveRowCall]_vars

-----------------------------------------------------------------------------
(* The callee of one line of source text *)

\* Lines a scanner record can carry: calls written with and without a space
\* before the parenthesis, keywords, casts, nested and chained calls, no call.
LinePool ==
    { "f(1);", "return g();", "if (x) f(2);", "x = 1;", "while (1) {}",
      "f (3); g(1);", "g  (f(2));", "int main(void) { return g(2); }",
      "sizeof(int) + g(1)", "9f(1); g()", "x = (f)(1);", "iff(1)",
      "for(;;) while(0) do_it(1);", "return (1);", "a.b(c(1))", "_x1(2)",
      "F(1) f(2)", "" }

\* callees rows of the caller f in a.c, the scanner naming any callee
CalleeLineRows ==
    { [query_type |-> "callees", query_symbol |-> q, source_file |-> <<"a.c">>,
       source_function |-> fn, line_number |-> 9, line_text |-> t]
        : q \in {"f", "zz"}, fn \in {"f", "g", "h"}, t \in LinePool }

InitCallee ==
    /\ NoPipeline
    /\ source_root = <<"/", "home", "u", "proj">>
    /\ files = {}
    /\ symbols = { PoolSymbol(1, "f", "function", <<"a.c">>),
                   PoolSymbol(5, "g", "function", <<"b.c">>),
                   PoolSymbol(6, "F", "function", <<"b.c">>) }
    /\ pc = "extract_callee"
    /\ arg \in CalleeLineRows
    /\ ret = NoCall

\* resolve_callees: one turn of the loop on the raw row arg, with the callee
\* it extracted and the class it counted the row in
ExtractCalleeCall ==
    /\ pc = "extract_callee"
    /\ ret' = [callee |-> ExtractCalleeFromLine(arg.line_text),
               class |-> RowClass(Store, arg),
               edges |-> CallsEdge(Store, arg)]
    /\ pc' = "callee"
    /\ UNCHANGED <<arg, files, symbols, pipeline_vars>>

SpecCallee == InitCallee /\ [][ExtractCalleeCall]_vars

-----------------------------------------------------------------------------
(* One scanner query: CscopeClient._run_query and the ingestion turn *)

Digits == Chars("0123456789")

RECURSIVE FieldEnd(_, _)
\* The last index of the run of non-space characters that starts at i.
FieldEnd(str, i) ==
    IF i < Len(str) /\ At(str, i + 1) \notin Space
    THEN FieldEnd(str, i + 1) ELSE i

RECURSIVE SplitFrom(_, _, _)
\* str.split(None, n) of the part of str from position i on: fields between
\* runs of white space, the rest of the line as the last part once n splits
\* are made
SplitFrom(str, i, n) ==
    LET a == SkipSpace(str, i)
    IN IF a > Len(str) THEN <<>>
       ELSE IF n = 0 THEN <<SubSeq(str, a, Len(str))>>
       ELSE <<SubSeq(str, a, FieldEnd(str, a))>>
                \o SplitFrom(str, FieldEnd(str, a) + 1, n - 1)

\* int(str) succeeds: an optional sign, then decimal digits
IsInt(str) ==
    LET body == IF str # "" /\ At(str, 1) \in {"+", "-"}
                THEN SubSeq(str, 2, Len(str)) ELSE str
    IN body # "" /\ \A i \in 1..Len(body) : At(body, i) \in Digits

DigitValue(c) == CHOOSE d \in 0..9 : At("0123456789", d + 1) = c

RECURSIVE DecimalValue(_)
DecimalValue(str) ==
    IF str = "" THEN 0
    ELSE 10 * DecimalValue(SubSeq(str, 1, Len(str) - 1))
            + DigitValue(At(str, Len(str)))

\* int(str) of a string it accepts
IntOf(str) ==
    IF At(str, 1) = "-" THEN 0 - DecimalValue(SubSeq(str, 2, Len(str)))
    ELSE IF At(str, 1) = "+" THEN DecimalValue(SubSeq(str, 2, Len(str)))
    ELSE DecimalValue(str)

\* What a call gives back: a list, or the exception it raised.
Returned(refs) == [error |-> "none", refs |-> refs]
Raised(exception) == [error |-> exception, refs |-> <<>>]

\* CscopeClient._parse_output over the lines of the output: a line of fewer
\* than three fields is skipped, int() of the third field raises ValueError
ParseOutput(lines) ==
    LET fields == MapSeq(lines, LAMBDA line : SplitFrom(line, 1, 3))
    IN IF \E i \in DOMAIN fields : Len(fields[i]) >= 3 /\ ~IsInt(fields[i][3])
       THEN Raised("ValueError")
       ELSE Returned(Flatten(MapSeq(fields, LAMBDA parts :
                IF Len(parts) < 3 THEN <<>>
                ELSE <<[file_path |-> parts[1], function |-> parts[2],
                        line_number |-> IntOf(parts[3]),
                        line_text |-> IF Len(parts) > 3 THEN parts[4] ELSE ""]>>)))

\* CscopeClient._run_query on what subprocess.run met: whether the binary is
\* installed, its exit code, its stderr and the lines of its stdout
RunQuery(run) ==
    IF ~run.installed THEN Raised("RuntimeError")
    ELSE IF run.returncode = 0 THEN ParseOutput(run.stdout)
    ELSE IF run.returncode = 1 /\ run.stderr = "" THEN Returned(<<>>)
    ELSE Raised("RuntimeError")

\* ingest_callees: the tuples one turn of its loop appends to raw_refs_batch;
\* an exception of the query is logged and the loop goes on
IngestTurn(function_name, result) ==
    IF result.error # "none" THEN <<>>
    ELSE MapSeq(result.refs, LAMBDA ref :
            [query_type |-> "callees", query_symbol |-> function_name,
             source_file |-> ref.file_path, source_function |-> ref.function,
             line_number |-> ref.line_number, line_text |-> ref.line_text])

\* Lines of scanner output: well formed, without text, with two fields only,
\* with a file name that holds a space, empty.
OutputLines ==
    { "a.c main 4 return helper(2);", "a.c main 17   g();", "b.c f 12",
      "a.c main", "my file.c main 4 helper(2);", "" }

\* What one run of the scanner can give.
ScannerRuns ==
    [installed : BOOLEAN, returncode : {0, 1, 2}, stderr : {"", "cscope: error"},
     stdout : SeqsUpTo(OutputLines, MaxLines)]

InitQuery ==
    /\ NoPipeline
    /\ source_root = <<"/", "home", "u", "proj">>
    /\ files = {}
    /\ symbols = {}
    /\ pc = "run_query"
    /\ arg \in ScannerRuns
    /\ ret = NoCall

\* ingest_callees: the turn of its loop for the function main, the scanner
\* behaving as arg says
RunQueryCall ==
    /\ pc = "run_query"
    /\ ret' = [result |-> RunQuery(arg),
               staged |-> IngestTurn("main", RunQuery(arg))]
    /\ pc' = "queried"
    /\ UNCHANGED <<arg, files, symbols, pipeline_vars>>

SpecQuery == InitQuery /\ [][RunQueryCall]_vars

-----------------------------------------------------------------------------
(* The two listings of file discovery *)

\* FileDiscovery.discover_files: the relative posix strings, sorted as str
DiscoverFiles(root, t, exts) ==
    SortSeq(MapSeq(DiscoverLoop(root, t, exts),
                   LAMBDA f : AsPosix(RelativeTo(f, root))),
            StrLess)

\* A file a.c beside a directory a, a header, an ignored directory.
ListingFiles ==
    {<<"a.c">>, <<"a", "x.c">>, <<"inc", "b.h">>, <<"src", "out.c">>,
     <<"out", "o.c">>, <<"notes.txt">>}

\* Extension lists --extensions can give: c,h  c  h,c  c,.c
ListingExtensions == {<<".c", ".h">>, <<".c">>, <<".h", ".c">>, <<".c", ".c">>}

InitListing ==
    /\ NoPipeline
    /\ source_root = <<"/", "home", "u", "proj">>
    /\ files = {}
    /\ symbols = {}
    /\ pc = "discover_both"
    /\ arg \in [files : SUBSET ListingFiles, extensions : ListingExtensions]
    /\ ret = NoCall

\* discover_files() and discover_files_absolute() of one FileDiscovery
DiscoverBoth ==
    /\ pc = "discover_both"
    /\ ret' = [relative |-> DiscoverFiles(source_root,
                                [files |-> arg.files, rev |-> 1], arg.extensions),
               absolute |-> DiscoverFilesAbsolute(source_root,
                                [files |-> arg.files, rev |-> 1], arg.extensions)]
    /\ pc' = "discovered"
    /\ UNCHANGED <<arg, files, symbols, pipeline_vars>>

SpecListing == InitListing /\ [][DiscoverBoth]_vars

-----------------------------------------------------------------------------
(* One ReferenceResolver object, its statistics and the edges it writes *)

\* ResolutionStats(): the counters of a new object (ambiguous_dst, which
\* nothing writes or returns, left out)
ResolutionStats ==
    [total_raw_refs |-> 0, resolved_edges |-> 0, unresolved_src |-> 0,
     unresolved_dst |-> 0, skipped_parsing |-> 0]

\* The rows of raw_refs that the loop of resolve_callees counts in a class.
CountClass(s, raw_refs, class) ==
    Cardinality({i \in DOMAIN raw_refs : RowClass(s, raw_refs[i]) = class})

\* resolve_callees: self.stats after the call, from self.stats before it.
\* total_raw_refs is assigned; with no rows the call returns there; the three
\* unresolved counters are incremented; resolved_edges is assigned
\* len(edges_batch) when the batch is not empty
ResolveCalleesStats(s, stats) ==
    LET raw_refs == SelectSeq(s.raw_references, LAMBDA r : r.query_type = "callees")
        batch == CountClass(s, raw_refs, "resolved")
    IN IF raw_refs = <<>> THEN [stats EXCEPT !.total_raw_refs = 0]
       ELSE [total_raw_refs |-> Len(raw_refs),
             resolved_edges |-> IF batch > 0 THEN batch ELSE stats.resolved_edges,
             unresolved_src |-> stats.unresolved_src
                                  + CountClass(s, raw_refs, "src_not_found"),
             unresolved_dst |-> stats.unresolved_dst
                                  + CountClass(s, raw_refs, "dst_not_found_or_ambiguous"),
             skipped_parsing |-> stats.skipped_parsing
                                  + CountClass(s, raw_refs, "no_callee_in_line")]

\* resolve_includes: the dictionary it returns, built anew in each call
ResolveIncludesStats(s) ==
    LET raw_refs == SelectSeq(s.raw_references, LAMBDA r : r.query_type = "includes")
        matches(r) == Cardinality(ResolveHeaderPath(s, r.query_symbol))
    IN [total_raw_refs |-> Len(raw_refs),
        resolved_edges |-> Len(SelectSeq(raw_refs, LAMBDA r : matches(r) = 1)),
        unresolved |-> Len(SelectSeq(raw_refs, LAMBDA r : matches(r) = 0)),
        ambiguous |-> Len(SelectSeq(raw_refs, LAMBDA r : matches(r) > 1))]

\* Raw rows: a call that resolves, a line without a call, an unknown caller,
\* an unknown callee, an include that resolves and one that does not.
RawPool ==
    { [query_type |-> "callees", query_symbol |-> "main", source_file |-> F_AC,
       source_function |-> "helper", line_number |-> 4,
       line_text |-> "return helper(helper(2));"],
      [query_type |-> "callees", query_symbol |-> "main", source_file |-> F_AC,
       source_function |-> "x", line_number |-> 5, line_text |-> "x = 1;"],
      [query_type |-> "callees", query_symbol |-> "ghost", source_file |-> F_AC,
       source_function |-> "helper", line_number |-> 6, line_text |-> "helper(1);"],
      [query_type |-> "callees", query_symbol |-> "main", source_file |-> F_AC,
       source_function |-> "missing", line_number |-> 7,
       line_text |-> "missing(1);"],
      [query_type |-> "includes", query_symbol |-> "b.h", source_file |-> F_AC,
       source_function |-> "<global>", line_number |-> 1,
       line_text |-> "#include \"b.h\""],
      [query_type |-> "includes", query_symbol |-> "nope.h", source_file |-> F_AC,
       source_function |-> "<global>", line_number |-> 2,
       line_text |-> "#include \"nope.h\""] }

\* ReferenceResolver(db_conn) on a store that Stage 1 and Stage 2b filled
InitResolver ==
    /\ source_root = <<"/", "home", "u", "proj">>
    /\ extensions = <<".c", ".h">>
    /\ tree = Tree1
    /\ files_to_index = <<>>
    /\ idx = 0
    /\ total_symbols = 0
    /\ files = {F_AC, F_BH}
    /\ symbols = { PoolSymbol(1, "helper", "function", F_AC),
                   PoolSymbol(2, "main", "function", F_AC) }
    /\ symbols_fts = {}
    /\ raw_references \in SeqsUpTo(RawPool, MaxRaw)
    /\ symbol_edges = {}
    /\ file_edges = <<>>
    /\ metadata = NoMeta
    /\ txn = NoTxn
    /\ cscope_out = NoCscope
    /\ on_delete = "restrict"
    /\ flags = NoFlags
    /\ pc = "resolver"
    /\ runs = 0
    /\ faults = 0
    /\ store0 = NoStore
    /\ trace = <<>>
    /\ arg = [stats |-> ResolutionStats, calls |-> 0]
    /\ ret = NoCall

\* resolver.resolve_callees(clear_existing=True)
ResolveCalleesCall ==
    /\ pc = "resolver"
    /\ arg.calls < MaxCalls
    /\ symbol_edges' = ResolveCallees(Store).symbol_edges
    /\ arg' = [stats |-> ResolveCalleesStats(Store, arg.stats),
               calls |-> arg.calls + 1]
    /\ ret' = [call |-> "resolve_callees",
               stats |-> ResolveCalleesStats(Store, arg.stats)]
    /\ UNCHANGED <<source_root, extensions, tree, files_to_index, idx,
                   total_symbols, files, symbols, symbols_fts, raw_references,
                   file_edges, metadata, txn, cscope_out, on_delete, flags, pc,
                   runs, faults, store0, trace>>

\* resolver.resolve_includes(clear_existing=True)
ResolveIncludesCall ==
    /\ pc = "resolver"
    /\ arg.calls < MaxCalls
    /\ file_edges' = ResolveIncludes(Store).file_edges
    /\ arg' = [arg EXCEPT !.calls = @ + 1]
    /\ ret' = [call |-> "resolve_includes", stats |-> ResolveIncludesStats(Store)]
    /\ UNCHANGED <<source_root, extensions, tree, files_to_index, idx,
                   total_symbols, files, symbols, symbols_fts, raw_references,
                   symbol_edges, metadata, txn, cscope_out, on_delete, flags, pc,
                   runs, faults, store0, trace>>

SpecResolver == InitResolver /\ [][ResolveCalleesCall \/ ResolveIncludesCall]_vars

-----------------------------------------------------------------------------
(* The claims *)

Events == Range(trace)

\* The position of the first event ev in the run's trace (0: not there).
Pos(ev) ==
    IF ev \in Events THEN MinOf({i \in DOMAIN trace : trace[i] = ev}) ELSE 0

SymbolIds == {r.id : r \in symbols}

\* The five tables the pipeline fills, of a store value.
Tables(s) ==
    <<s.files, s.symbols, s.raw_references, s.symbol_edges, s.file_edges>>

C2_IncludesEndpointsInFiles ==
    (pc = "idle" /\ faults = 0)
        => \A i \in DOMAIN file_edges :
              file_edges[i].src_file \in files /\ file_edges[i].dst_file \in files

\* C3: in every state, every symbol_edges row has its src_symbol_id and its
\* dst_symbol_id among the ids of the rows of symbols.
C3_EdgesReferToSymbols ==
    \A e \in symbol_edges :
        e.src_symbol_id \in SymbolIds /\ e.dst_symbol_id \in SymbolIds

\* C3: Stage 1 was re-run with the clear declined on a store that held edges.
C3_Witness ==
    /\ pc = "meta"
    /\ "clear" \notin Events
    /\ store0.symbol_edges # {}
    /\ tree = Tree2

\* C4: in a run whose scanner build failed, neither ingestion nor resolution
\* executes.
C4_BuildFailureSkipsLaterStages ==
    "xref failed" \in Events
        => ("ingest" \notin Events /\ "resolve" \notin Events)

\* C5: when index_directory has failed, files, symbols, raw_references and the
\* edge tables hold what they held before it was called.
C5_FailureRestoresStore ==
    pc = "failed" => Tables(Store) = Tables(store0)

\* C6: when an error occurred while a file's rows were inserted, no files or
\* symbols row written by that Stage C run is committed.
C6_StageCAllOrNothing ==
    (pc = "meta" /\ "insert error" \in Events)
        => LET base == IF "clear" \in Events THEN ClearDatabase(store0) ELSE store0
           IN files = base.files /\ symbols = base.symbols

StageRank(ev) ==
    CASE ev = "symbols" -> 1
      [] ev \in {"xref", "xref failed"} -> 2
      [] ev = "ingest" -> 3
      [] ev = "resolve" -> 4
      [] OTHER -> 0

\* C8: the stages of a run execute in the order Stage 1, build, ingest,
\* resolve, each once; no transaction is open when a later stage starts, and
\* the build and the resolution start only after the selected stage before
\* them has run.
C8_StagesInOrder ==
    /\ \A i, j \in DOMAIN trace :
          (i < j /\ StageRank(trace[i]) > 0 /\ StageRank(trace[j]) > 0)
              => StageRank(trace[i]) < StageRank(trace[j])
    /\ pc \in {"build", "ingest", "resolve", "stats"}
          => /\ txn = NoTxn
             /\ RunsStage1(flags) => "symbols" \in Events
    /\ (pc = "resolve" /\ run_build_cscope /\ files # {})
          => ("xref" \in Events \/ "xref failed" \in Events)
    /\ (pc = "stats" /\ run_ingest /\ cscope_out # NoCscope)
          => "ingest" \in Events
    /\ (pc = "stats" /\ run_resolve) => "resolve" \in Events
    /\ ("resolve" \in Events /\ "ingest" \in Events)
          => Pos("ingest") < Pos("resolve")

\* C8: a run of all four stages has finished.
C8_Witness ==
    /\ pc = "stats"
    /\ {"symbols", "xref", "ingest", "resolve"} \subseteq Events
    /\ symbol_edges # {}

\* The name of the symbols row with the given id.
NameOfId(s, id) == (CHOOSE r \in s.symbols : r.id = id).name

\* The five tables without their synthetic ids.
Content(s) ==
    <<s.files,
      {[name |-> r.name, type |-> r.type, kind_raw |-> r.kind_raw,
        file_path |-> r.file_path, line_number |-> r.line_number] : r \in s.symbols},
      s.raw_references,
      {[src |-> NameOfId(s, e.src_symbol_id), dst |-> NameOfId(s, e.dst_symbol_id),
        source_file |-> e.source_file, line_number |-> e.line_number]
          : e \in s.symbol_edges},
      s.file_edges>>

\* C9: a run with only --build-cscope on an indexed store leaves files,
\* symbols, raw_references, symbol_edges and file_edges as they were (here:
\* up to the ids of the rows, in runs in which nothing failed).
C9_BuildCscopeOnlyKeepsTables ==
    (/\ pc = "stats"
     /\ flags = [NoFlags EXCEPT !.build_cscope = TRUE]
     /\ faults = 0
     /\ tree = Tree1
     /\ store0.files = {F_AC, F_BH})
        => Content(Store) = Content(store0)

\* C10: discovery returns a file of the tree iff its name ends with an allowed
\* extension and no component of its path relative to the source root is an
\* ignored name.
C10_DiscoveryFilter ==
    pc = "prompt"
        => \A p \in tree.files :
              (source_root \o p \in Range(files_to_index))
                  <=> /\ \E i \in DOMAIN extensions : EndsWith(Last(p), extensions[i])
                      /\ \A i \in DOMAIN p : p[i] \notin DEFAULT_IGNORE_DIRS


C12_NoAnonymousLeak ==
    pc = "parsed"
        => \A i \in DOMAIN ret :
              /\ ~StartsWith(ret[i].name, "__anon")
              /\ ~StartsWith(ret[i].scope_name, "__anon")
              /\ (ret[i].scope_name = Absent) <=> (ret[i].scope_kind = Absent)
              /\ ret[i].scope_name # Absent
                    => \E j \in DOMAIN arg.tags :
                          \/ ret[i].scope_name = arg.tags[j].scope
                          \/ /\ arg.tags[j].kind = "typedef"
                             /\ ret[i].scope_name = arg.tags[j].name

\* C12: a member of an anonymous struct whose typedef follows it got the
\* typedef's name, and a member of an unmapped anonymous union lost its scope.
C12_Witness ==
    /\ pc = "parsed"
    /\ Len(arg.tags) = 3
    /\ arg.tags[1].scope = "__anon1" /\ arg.tags[2].typeref = "struct:__anon1"
    /\ arg.tags[3].scope = "__anon2"
    /\ \E i \in DOMAIN ret : ret[i].name = "x" /\ ret[i].scope_name = "S"
    /\ \E i \in DOMAIN ret : ret[i].name = "y" /\ ret[i].scope_name = Absent

\* C13: the source_file the ingestor stores for a scanner path is relative: a
\* relative path as it is, an absolute one relative to the source root.
C13_StoredPathRelative ==
    pc = "normalized"
        => /\ ~IsAbsolute(ret)
           /\ IsAbsolute(arg) => source_root \o ret = arg
           /\ ~IsAbsolute(arg) => ret = arg

\* C14: no two symbol_edges rows share (edge_type, src_symbol_id,
\* dst_symbol_id, source_file, line_number).
C14_NoDuplicateEdges ==
    \A e1, e2 \in symbol_edges : EdgeKey(e1) = EdgeKey(e2) => e1 = e2

\* C14: two callees rows of one source line were resolved into an edge.
C14_Witness ==
    /\ "resolve" \in Events
    /\ symbol_edges # {}
    /\ \E i, j \in DOMAIN raw_references :
          /\ i < j
          /\ raw_references[i] = raw_references[j]
          /\ raw_references[i].query_type = "callees"

\* files, symbols, symbol_edges and file_edges without their synthetic ids.
Content4(s) == <<Content(s)[1], Content(s)[2], Content(s)[4], Content(s)[5]>>

\* What Stage 1 writes to an empty store for the tree t.
IndexAll(t) ==
    LET fs == DiscoverFilesAbsolute(source_root, t, extensions)
        st[i \in 0..Len(fs)] ==
            IF i = 0 THEN EmptyStore
            ELSE IndexFileWithSymbols(st[i - 1], RelativeTo(fs[i], source_root),
                                      ParseRoot(t, RelativeTo(fs[i], source_root)),
                                      on_delete)
    IN st[Len(fs)]

\* The store of the full pipeline run once on the tree t from an empty store.
FirstFullRun(t) ==
    ResolveSemanticEdges(
        IngestRawReferences(IndexAll(t),
                            [exists |-> TRUE, manifest |-> IndexAll(t).files,
                             tree |-> t],
                            source_root, TRUE))

\* C15: a full pipeline run with --force in which nothing fails ends with
\* the content a first run on the same tree gives; so when it started from
\* that content (a second run on an unchanged tree), files, symbols,
\* symbol_edges and file_edges are the same after it as before it.
C15_FullRunIdempotent ==
    (pc = "stats" /\ flags.refs /\ flags.force /\ RunsStage1(flags) /\ faults = 0)
        => /\ Content4(Store) = Content4(FirstFullRun(tree))
           /\ Content4(store0) = Content4(FirstFullRun(tree))
                 => Content4(Store) = Content4(store0)

\* C15: a second full run on the unchanged tree of a first one has finished.
C15_Witness ==
    /\ pc = "stats" /\ flags.refs /\ flags.force /\ RunsStage1(flags) /\ faults = 0
    /\ runs >= 2
    /\ tree = Tree1
    /\ store0.symbol_edges # {} /\ store0.file_edges # <<>>
    /\ Content4(store0) = Content4(FirstFullRun(tree))
    /\ {"clear", "symbols", "xref", "ingest", "resolve"} \subseteq Events

NonZeroExitGivesNoSymbols ==
    (pc = "parsed" /\ arg.returncode # 0) => ret = <<>>

\* The directories and files directly inside the directory with components d.
ImmediateChildren(d) ==
    {p[Len(d) + 1] : p \in {f \in files : Len(f) > Len(d) /\ IsUnder(f, d)}}

\* The files under the directory with components d.
FilesUnder(d) == {f \in files : Len(f) > Len(d) /\ IsUnder(f, d)}

\* C17: get_children returns the immediate children of the directory, each
\* once, directories before files and each group in order of name; a
\* directory child carries the number of its own immediate children and the
\* number of symbols of the files under it, a file child its own symbols.
C17_ChildrenOfDirectory ==
    pc = "children"
        => /\ {ret[i].name : i \in DOMAIN ret} = ImmediateChildren(arg.dir)
           /\ Len(ret) = Cardinality(ImmediateChildren(arg.dir))
           /\ \A i, j \in DOMAIN ret :
                 i < j => /\ ~(ret[i].kind = "file" /\ ret[j].kind = "dir")
                          /\ ret[i].kind = ret[j].kind
                                => StrLess(ret[i].name, ret[j].name)
           /\ \A i \in DOMAIN ret :
                 LET c == Append(arg.dir, ret[i].name)
                 IN /\ ret[i].kind = "dir" <=> FilesUnder(c) # {}
                    /\ ret[i].kind = "dir"
                          => /\ ret[i].children_count
                                   = Cardinality(ImmediateChildren(c))
                             /\ ret[i].symbol_count
                                   = Cardinality({r \in symbols :
                                                     r.file_path \in FilesUnder(c)})
                    /\ ret[i].kind = "file"
                          => ret[i].symbol_count
                                = Cardinality({r \in symbols : r.file_path = c})

\* C18: for a name without '/', the candidates of header resolution are the
\* files whose path is the name or whose last segment is the name,
\* character for character.
C18_HeaderCandidatesExact ==
    pc = "header"
        => ret = {f \in files : AsPosix(f) = arg \/ Last(f) = arg}

\* The function symbols of a name, and those of them in a file.
Candidates(name) == {r \in symbols : r.name = name /\ r.type = "function"}

CandidatesIn(name, file) == {r \in Candidates(name) : r.file_path = file}

\* C19: the callee of a row resolves to the only candidate; else to a
\* candidate of the row's source_file; else to the only candidate in a .c
\* file; else to nothing, and then no edge is emitted.
C19_DstLadder ==
    pc = "row"
        => LET cands == Candidates(ExtractCalleeFromLine(arg.line_text))
               same == CandidatesIn(ExtractCalleeFromLine(arg.line_text),
                                    arg.source_file)
               in_c == {r \in cands : EndsWith(Last(r.file_path), ".c")}
           IN /\ Cardinality(cands) = 1 => {ret.dst} = {r.id : r \in cands}
              /\ (Cardinality(cands) > 1 /\ same # {})
                    => ret.dst \in {r.id : r \in same}
              /\ (Cardinality(cands) > 1 /\ same = {} /\ Cardinality(in_c) = 1)
                    => {ret.dst} = {r.id : r \in in_c}
              /\ (cands = {} \/ (Cardinality(cands) > 1 /\ same = {}
                                    /\ Cardinality(in_c) # 1))
                    => (ret.dst = NoSymbol /\ ret.edges = <<>>)

\* C19: a callee declared in a header and defined in one other .c file
\* resolves to the definition.
C19_Witness ==
    /\ pc = "row"
    /\ ExtractCalleeFromLine(arg.line_text) = "f"
    /\ arg.source_file = <<"x.c">>
    /\ Cardinality(Candidates("f")) = 2
    /\ ret.dst = 3

\* C20: the caller of a row resolves to the only function of that name; with
\* several, to one in the row's source_file; else to nothing, and then no
\* edge is emitted.
C20_SrcLadder ==
    pc = "row"
        => LET cands == Candidates(arg.query_symbol)
               same == CandidatesIn(arg.query_symbol, arg.source_file)
           IN /\ Cardinality(cands) = 1 => {ret.src} = {r.id : r \in cands}
              /\ (Cardinality(cands) > 1 /\ same # {})
                    => ret.src \in {r.id : r \in same}
              /\ (cands = {} \/ (Cardinality(cands) > 1 /\ same = {}))
                    => (ret.src = NoSymbol /\ ret.edges = <<>>)

\* C20: of several functions of the caller's name the one in the row's file
\* was taken, and an edge was emitted.
C20_Witness ==
    /\ pc = "row"
    /\ arg.query_symbol = "g"
    /\ arg.source_file = <<"g.c">>
    /\ Cardinality(Candidates("g")) = 3
    /\ ret.src = 6
    /\ ret.edges # <<>>

\* An identifier token of str: a maximal run of identifier characters from i
\* to j that starts with a letter or an underscore.
IdentifierAt(str, i, j) ==
    /\ 1 <= i /\ i <= j /\ j <= Len(str)
    /\ At(str, i) \in IdentStart
    /\ \A k \in i..j : At(str, k) \in IdentChar
    /\ (i = 1 \/ At(str, i - 1) \notin IdentChar)
    /\ (j = Len(str) \/ At(str, j + 1) \notin IdentChar)

\* A '(' follows position j of str, after characters of `blanks` only.
ParenAfter(str, j, blanks) ==
    \E k \in (j + 1)..Len(str) :
        /\ At(str, k) = "("
        /\ \A m \in (j + 1)..(k - 1) : At(str, m) \in blanks

\* The identifiers of str that are followed by '(' and are no keyword.
CallSites(str, blanks) ==
    {ij \in (1..Len(str)) \X (1..Len(str)) :
        /\ IdentifierAt(str, ij[1], ij[2])
        /\ ParenAfter(str, ij[2], blanks)
        /\ SubSeq(str, ij[1], ij[2]) \notin C_KEYWORDS}

\* The leftmost of them, or none.
LeftmostCall(str, blanks) ==
    LET sites == CallSites(str, blanks)
    IN IF sites = {} THEN NoCallee
       ELSE LET first == CHOOSE ij \in sites : \A o \in sites : ij[1] <= o[1]
            IN SubSeq(str, first[1], first[2])

RawRowsOf(qt) == SelectSeq(raw_references, LAMBDA r : r.query_type = qt)

\* The function definitions Stage 1 stored.
StoredDefinitions == {s \in symbols : s.kind_raw = "function"}

RECURSIVE CalleeRecordCount(_, _)
\* The records the scanner returns when asked once for the callees of each
\* symbol of S.
CalleeRecordCount(cs, S) ==
    IF S = {} THEN 0
    ELSE LET s == CHOOSE x \in S : TRUE
         IN Len(FindCallees(cs, s.name)) + CalleeRecordCount(cs, S \ {s})

FieldAt(str, i, j) ==
    /\ 1 <= i /\ i <= j /\ j <= Len(str)
    /\ \A k \in i..j : At(str, k) \notin Space
    /\ (i = 1 \/ At(str, i - 1) \in Space)
    /\ (j = Len(str) \/ At(str, j + 1) \in Space)

FieldsOf(str) ==
    {ij \in (1..Len(str)) \X (1..Len(str)) : FieldAt(str, ij[1], ij[2])}

\* A well-formed record line: file, function and a decimal line number, then
\* the text.
WellFormed(line) ==
    \E w \in FieldsOf(line) :
        /\ Cardinality({v \in FieldsOf(line) : v[1] < w[1]}) = 2
        /\ \A k \in w[1]..w[2] : At(line, k) \in Digits

\* C23: whatever malformed lines the output of a query holds, the turn of the
\* ingestion loop (which never fails) stages each of its well-formed records.
C23_MalformedLineOnlySkipped ==
    (pc = "queried" /\ arg.installed /\ arg.returncode = 0) =>
        Len(ret.staged) =
            Cardinality({i \in DOMAIN arg.stdout : WellFormed(arg.stdout[i])})

\* C24: a query that exits non-zero with empty stderr returns the empty list;
\* an error is raised only for a non-zero exit with stderr output or a
\* missing binary.
C24_NonZeroEmptyStderrIsNoResults ==
    pc = "queried" =>
        /\ (arg.installed /\ arg.returncode # 0 /\ arg.stderr = "")
                => ret.result = Returned(<<>>)
        /\ (ret.result.error = "RuntimeError")
                => (~arg.installed \/ (arg.returncode # 0 /\ arg.stderr # ""))

\* C25: the two listings of discovery are parallel: equally long, the i-th
\* absolute path the source root joined with the i-th relative path, and no
\* path listed twice.
C25_ListingsParallel ==
    pc = "discovered" =>
        /\ Len(ret.relative) = Len(ret.absolute)
        /\ \A i \in DOMAIN ret.relative :
              AsPosix(RelativeTo(ret.absolute[i], source_root)) = ret.relative[i]
        /\ \A i, j \in DOMAIN ret.relative :
              ret.relative[i] = ret.relative[j] => i = j

\* The names of the typedef tags of a stream that name the aggregate anon.
TypedefsOf(tags, anon) ==
    {tags[j].name : j \in {k \in DOMAIN tags :
        /\ tags[k].kind = "typedef"
        /\ AggregateOf(tags[k].typeref) # Absent
        /\ AfterColon(tags[k].typeref) = anon}}

\* The tag at position i of the stream was emitted with scope_name T.
EmittedWithScope(i, T) ==
    \E j \in DOMAIN ret :
        /\ ret[j].name = arg.tags[i].name
        /\ ret[j].line = arg.tags[i].line
        /\ ret[j].scope_name = T

\* C26 (as written): wherever its typedef stands in the tag stream, a member
\* of an anonymous aggregate __anonX is emitted with the name of every typedef
\* T whose typeref names __anonX as its scope_name.
C26_ScopeIsAnyTypedef ==
    (pc = "parsed" /\ arg.returncode = 0) =>
        \A i \in DOMAIN arg.tags :
            (arg.tags[i].scopeKind # Absent /\ StartsWith(arg.tags[i].scope, "__anon"))
                => \A T \in TypedefsOf(arg.tags, arg.tags[i].scope) :
                      ~StartsWith(T, "__anon") => EmittedWithScope(i, T)

\* C26 (amended): wherever its typedef stands in the tag stream, a member of
\* an anonymous aggregate __anonX that exactly one typedef T names is emitted
\* with scope_name T.
C26_ScopeIsTheTypedef ==
    (pc = "parsed" /\ arg.returncode = 0) =>
        \A i \in DOMAIN arg.tags :
            (arg.tags[i].scopeKind # Absent /\ StartsWith(arg.tags[i].scope, "__anon"))
                => \A T \in TypedefsOf(arg.tags, arg.tags[i].scope) :
                      (TypedefsOf(arg.tags, arg.tags[i].scope) = {T}
                         /\ ~StartsWith(T, "__anon"))
                            => EmittedWithScope(i, T)

\* The member comes first and its typedef last in the stream, and the member
\* got the typedef's name.
C26_Witness ==
    /\ pc = "parsed" /\ arg.returncode = 0
    /\ Len(arg.tags) = 3
    /\ arg.tags[1].name = "x" /\ arg.tags[1].scope = "__anon1"
    /\ arg.tags[3].name = "S"
    /\ TypedefsOf(arg.tags, "__anon1") = {"S"}
    /\ EmittedWithScope(1, "S")

\* C27: the statistics every call of resolve_callees returns partition the
\* callees rows: total_raw_refs is the sum of the four classes.
C27_StatsPartitionRows ==
    (arg.calls > 0 /\ ret.call = "resolve_callees") =>
        /\ ret.stats.total_raw_refs =
              Len(SelectSeq(raw_references, LAMBDA r : r.query_type = "callees"))
        /\ ret.stats.total_raw_refs =
              ret.stats.resolved_edges + ret.stats.skipped_parsing
                + ret.stats.unresolved_src + ret.stats.unresolved_dst

\* C28: the resolved_edges a resolver reports is the number of rows it left
\* in the table: CALLS rows of symbol_edges after resolve_callees, INCLUDES
\* rows of file_edges after resolve_includes.
C28_ReportedEdgesAreRows ==
    /\ (arg.calls > 0 /\ ret.call = "resolve_callees") =>
          ret.stats.resolved_edges =
              Cardinality({e \in symbol_edges : e.edge_type = "CALLS"})
    /\ (arg.calls > 0 /\ ret.call = "resolve_includes") =>
          ret.stats.resolved_edges =
              Len(SelectSeq(file_edges, LAMBDA e : e.edge_type = "INCLUDES"))

\* C29: once a run has written its metadata, total_files is the number of
\* rows of files and total_symbols the number of rows of symbols.
C29_MetadataCountsRows ==
    "meta" \in Events =>
        /\ metadata.total_files = Cardinality(files)
        /\ metadata.total_symbols = Cardinality(symbols)

\* The definitions and the prototypes of a function name in the store.
DefinitionsOf(name) ==
    {r \in symbols : r.name = name /\ r.kind_raw = "function"}

PrototypesOf(name) ==
    {r \in symbols : r.name = name /\ r.kind_raw = "prototype"}

\* C30: when the caller's name has both a prototype and a definition, and the
\* row's file holds a definition of it, the source of the CALLS edge of the
\* row is that definition, never a prototype.
C30_SrcIsDefinition ==
    (/\ pc = "row"
     /\ ret.edges # <<>>
     /\ PrototypesOf(arg.query_symbol) # {}
     /\ \E r \in DefinitionsOf(arg.query_symbol) : r.file_path = arg.source_file)
        => \E r \in DefinitionsOf(arg.query_symbol) :
              /\ r.id = ret.edges[1].src_symbol_id
              /\ r.file_path = arg.source_file

====
